---------------------------- MODULE Spec2Model ----------------------------
(***************************************************************************)
(* Model of kcbs_browser_scraper.py: the ZIPCODE configuration check, the  *)
(* fetch of the event payload (search_events_by_radius), the extraction of *)
(* pipe-delimited lines (parse_events) and the write of FinalCSV.txt with  *)
(* the exit code (main).                                                   *)
(*                                                                         *)
(* Representation.  A Python/JSON value is a tagged record:               *)
(*   [t |-> "null"]  [t |-> "bool", b]  [t |-> "num", n]  [t |-> "str", s] *)
(*   [t |-> "list", l]  [t |-> "dict", d]                                  *)
(* A dict keeps its pairs <<key, value>> in iteration order.  A string is  *)
(* a sequence of tokens: each token is an atomic, non-empty chunk of       *)
(* characters ("<b>", " ", "BBQ Bash", ...); the characters of the string  *)
(* are the tokens concatenated (Flat).  Every token that starts with '<'   *)
(* is a tag token and no other token contains '<'; the regular expressions *)
(* of parse_events are modelled on tokens with that discipline.            *)
(***************************************************************************)
EXTENDS Integers, Sequences, FiniteSets, TLC

VARIABLES
    pc,            \* position of the process: see Init and the actions
    ZIPCODE,       \* os.getenv('ZIPCODE') of the current process
    response,      \* what the GET request of this run met (NoResponse before it)
    events_data,   \* the value search_events_by_radius returned
    events,        \* the record list parse_events selected (NotSelected before)
    output_lines,  \* the list parse_events returned
    FinalCSV,      \* the output file: [exists, content]
    exit_code,     \* exit status of the finished process, NoExit while it runs
    requests,      \* GET requests issued by the current process
    writes,        \* writes of the output file by the current process
    runs           \* number of processes started so far

vars == <<pc, ZIPCODE, response, events_data, events, output_lines, FinalCSV,
          exit_code, requests, writes, runs>>

----------------------------------------------------------------------------
(* Bounds of the model *)

MaxRuns == 2

MaxEvents == 2

MaxHtmlLen == 3

MaxKeys == 3

----------------------------------------------------------------------------
(* Python / JSON values *)

JNull == [t |-> "null"]

JBool(b) == [t |-> "bool", b |-> b]

JNum(n) == [t |-> "num", n |-> n]

JStr(s) == [t |-> "str", s |-> s]

JList(l) == [t |-> "list", l |-> l]

JDict(d) == [t |-> "dict", d |-> d]

IsDict(v) == v.t = "dict"

IsList(v) == v.t = "list"

IsStr(v) == v.t = "str"

\* bool(v): the truth value Python gives a value in `if v`, `not v`, `a or b`
Truthy(v) ==
    CASE v.t = "null" -> FALSE
      [] v.t = "bool" -> v.b
      [] v.t = "num"  -> v.n # 0
      [] v.t = "str"  -> Len(v.s) > 0
      [] v.t = "list" -> Len(v.l) > 0
      [] v.t = "dict" -> Len(v.d) > 0

\* `key in d`
HasKey(v, k) == \E i \in 1..Len(v.d) : v.d[i][1] = k

\* d[key], for a key that is present
Lookup(v, k) == v.d[CHOOSE i \in 1..Len(v.d) : v.d[i][1] = k][2]

\* d.get(key, default)
Get(v, k, default) == IF HasKey(v, k) THEN Lookup(v, k) ELSE default

\* a or b
PyOr(a, b) == IF Truthy(a) THEN a ELSE b

----------------------------------------------------------------------------
(* Strings as token sequences *)

RECURSIVE Flat(_)
\* the characters of a token sequence
Flat(s) == IF s = <<>> THEN "" ELSE Head(s) \o Flat(Tail(s))

IsSpace(tok) == tok = " "

RECURSIVE LStrip(_)
LStrip(s) == IF s # <<>> /\ IsSpace(Head(s)) THEN LStrip(Tail(s)) ELSE s

RECURSIVE RStrip(_)
RStrip(s) ==
    IF s # <<>> /\ IsSpace(s[Len(s)]) THEN RStrip(SubSeq(s, 1, Len(s) - 1)) ELSE s

\* str.strip()
Strip(s) == RStrip(LStrip(s))

\* str(v) as an f-string formats it, for the scalar values the model feeds it
PyStr(v) ==
    CASE v.t = "str"  -> Flat(v.s)
      [] v.t = "num"  -> ToString(v.n)
      [] v.t = "null" -> "None"
      [] v.t = "bool" -> IF v.b THEN "True" ELSE "False"

RECURSIVE JoinLines(_)
\* '\n'.join(lines)
JoinLines(lines) ==
    IF lines = <<>> THEN ""
    ELSE IF Len(lines) = 1 THEN lines[1]
    ELSE lines[1] \o "\n" \o JoinLines(Tail(lines))

----------------------------------------------------------------------------
(* search_events_by_radius: the GET request and the decoding of its answer *)

\* A stretch of response text that is not JSON and holds no brace
Junk == [t |-> "junk"]

\* urlopen / read / decode raised: DNS, TLS, timeout, HTTP error, bad UTF-8
TransportError == [kind |-> "error"]

\* A response text.  callback: the text starts with 'banner_callback_' (and
\* the body sits in the callback's parentheses).  body: the segments of the
\* rest of the text, each a serialized JSON value or a Junk stretch.
Text(callback, body) == [kind |-> "text", callback |-> callback, body |-> body]

RECURSIVE OuterDictsOfSeq(_)
RECURSIVE OuterDicts(_)
\* The objects of a serialized value that no other object encloses, in text
\* order: their braces are the ones find('{') and rfind('}') can meet first
OuterDicts(v) ==
    CASE v.t = "dict" -> <<v>>
      [] v.t = "list" -> OuterDictsOfSeq(v.l)
      [] OTHER        -> <<>>

OuterDictsOfSeq(vs) ==
    IF vs = <<>> THEN <<>> ELSE OuterDicts(Head(vs)) \o OuterDictsOfSeq(Tail(vs))

\* data[json_start:json_end] with json_start = data.find('{') and
\* json_end = data.rfind('}') + 1, when the text starts with the callback
\* prefix: the segments from the first outer object to the last one.  Without
\* any brace the text is left as it is (callback prefix included).
Unwrap(resp) ==
    LET objs == OuterDictsOfSeq(resp.body)
    IN  IF ~resp.callback THEN [prefixed |-> FALSE, body |-> resp.body]
        ELSE IF objs = <<>> THEN [prefixed |-> TRUE, body |-> resp.body]
        ELSE IF Len(objs) = 1 THEN [prefixed |-> FALSE, body |-> objs]
        ELSE [prefixed |-> FALSE, body |-> <<objs[1], Junk, objs[Len(objs)]>>]

\* json.loads(data): the one value the text serializes, or JSONDecodeError
JsonLoads(data) ==
    IF ~data.prefixed /\ Len(data.body) = 1 /\ data.body[1].t # "junk"
    THEN [ok |-> TRUE, value |-> data.body[1]]
    ELSE [ok |-> FALSE]

\* Faulty variant of SearchEvents: a lenient decoder that returns the first object of
\* a text it cannot decode as a whole
SearchEventsLenient(resp) ==
    IF resp.kind = "error" THEN JNull
    ELSE LET decoded == JsonLoads(Unwrap(resp))
             objs == OuterDictsOfSeq(resp.body)
         IN  IF decoded.ok THEN decoded.value
             ELSE IF objs # <<>> THEN objs[1] ELSE JNull

\* What search_events_by_radius returns: the decoded value, or None after a
\* transport failure (except Exception) or a JSONDecodeError
SearchEvents(resp) ==
    IF resp.kind = "error" THEN JNull
    ELSE LET decoded == JsonLoads(Unwrap(resp))
         IN  IF decoded.ok THEN decoded.value ELSE JNull

----------------------------------------------------------------------------
(* The regular expressions of parse_events, on token sequences *)

\* Tokens that start with '<' (an HTML tag, with its attributes)
TagTokens ==
    {"<b>", "</b>", "<i>", "</i>", "</a>", "<br />",
     "<a onclick=\"viewEvent(39161)\">", "<a onclick='viewEvent(2)'>",
     "<a href=\"/members/evr/x.php?evid=5\">", "<a href=\"evr/x.php?evid=6\">",
     "<a href=\"http://h/evr/x.php?evid=8\">"}

IsTag(tok) == tok \in TagTokens

\* [^<]+ from position i: the last position of the run of tag-free tokens
\* that starts at i (i - 1 when there is none)
RECURSIVE RunEnd(_, _)
RunEnd(h, i) ==
    IF i > Len(h) \/ IsTag(h[i]) THEN i - 1 ELSE RunEnd(h, i + 1)

NoMatch == [m |-> FALSE, g |-> <<>>]

Match(g) == [m |-> TRUE, g |-> g]

\* re.search(open ([^<]+) close): the leftmost `open` tag followed by a
\* non-empty tag-free run and then directly by the `close` tag
RECURSIVE SpanFrom(_, _, _, _)
SpanFrom(h, open, close, i) ==
    IF i > Len(h) THEN NoMatch
    ELSE LET j == RunEnd(h, i + 1)
         IN  IF h[i] = open /\ j >= i + 1 /\ j + 1 <= Len(h) /\ h[j + 1] = close
             THEN Match(SubSeq(h, i + 1, j))
             ELSE SpanFrom(h, open, close, i + 1)

\* re.search(r'<b>([^<]+)</b>', html_content)
NameMatch(h) == SpanFrom(h, "<b>", "</b>", 1)

\* re.search(r'<i>([^<]+)</i>', html_content)
DateMatch(h) == SpanFrom(h, "<i>", "</i>", 1)

\* The digits DIST:\s*(\d+)\s*mi captures inside a token ("" when it does
\* not match there)
DistDigits(tok) ==
    CASE tok = "DIST: 10 mi" -> "10"
      [] tok = "DIST: 42 mi" -> "42"
      [] OTHER               -> ""

\* re.search(r'DIST:\s*(\d+)\s*mi', html_content): group 1 of the leftmost match
RECURSIVE DistanceFrom(_, _)
DistanceFrom(h, i) ==
    IF i > Len(h) THEN NoMatch
    ELSE IF DistDigits(h[i]) # "" THEN Match(<<DistDigits(h[i])>>)
    ELSE DistanceFrom(h, i + 1)

DistanceMatch(h) == DistanceFrom(h, 1)

\* <br[^>]*> : a tag that starts with '<br'
IsBr(tok) == tok = "<br />"

\* text that starts with UNITED STATES
StartsUnitedStates(tok) == tok = "UNITED STATES"

\* re.search(r'</a>([^<]+)<br[^>]*>UNITED STATES', html_content)
RECURSIVE LocationFrom(_, _)
LocationFrom(h, i) ==
    IF i > Len(h) THEN NoMatch
    ELSE LET j == RunEnd(h, i + 1)
         IN  IF /\ h[i] = "</a>" /\ j >= i + 1 /\ j + 2 <= Len(h)
                /\ IsBr(h[j + 1]) /\ StartsUnitedStates(h[j + 2])
             THEN Match(SubSeq(h, i + 1, j))
             ELSE LocationFrom(h, i + 1)

\* Tokens whose characters all lie in [A-Za-z\s,]
AlphaTokens ==
    {" ", "BBQ Bash", "Smokeout", "Other", "JANE DOE", "Henrico, VA",
     "UNITED STATES"}

\* Tokens that match [A-Za-z\s,]+[A-Z]{2} (two upper-case letters at the end)
StateTokens == {"Henrico, VA", "JANE DOE", "UNITED STATES"}

\* Tokens that match [A-Za-z\s,]+[A-Z]{2}\s*\d+ (digits at the end)
StateZipTokens == {"Austin, TX 78701"}

\* The whole run matches [A-Za-z\s,]+[A-Z]{2}\s*\d*
CityShaped(run) ==
    LET r == RStrip(run)
    IN  /\ r # <<>>
        /\ \A k \in 1..(Len(r) - 1) : r[k] \in AlphaTokens
        /\ \/ r[Len(r)] \in StateTokens
           \/ r[Len(r)] \in StateZipTokens /\ r = run

\* re.search(r'</a>([A-Za-z\s,]+[A-Z]{2}\s*\d*)<br', html_content)
RECURSIVE LocationAltFrom(_, _)
LocationAltFrom(h, i) ==
    IF i > Len(h) THEN NoMatch
    ELSE LET j == RunEnd(h, i + 1)
         IN  IF /\ h[i] = "</a>" /\ j >= i + 1 /\ j + 1 <= Len(h)
                /\ IsBr(h[j + 1]) /\ CityShaped(SubSeq(h, i + 1, j))
             THEN Match(SubSeq(h, i + 1, j))
             ELSE LocationAltFrom(h, i + 1)

\* location_match: the first pattern, and the looser one if it fails
LocationMatch(h) ==
    IF LocationFrom(h, 1).m THEN LocationFrom(h, 1) ELSE LocationAltFrom(h, 1)

\* Reps?: as a token
IsRepLabel(tok) == tok \in {"Reps:", "Rep:"}

\* re.search(r'Reps?:\s*([^<]+)', html_content): the leftmost label followed
\* by a non-empty tag-free run; \s* gives back a character when the run is
\* blank, so the group is the run without its leading blanks, or one blank
RECURSIVE RepFrom(_, _)
RepFrom(h, i) ==
    IF i > Len(h) THEN NoMatch
    ELSE LET j == RunEnd(h, i + 1)
         IN  IF IsRepLabel(h[i]) /\ j >= i + 1
             THEN LET run == SubSeq(h, i + 1, j)
                  IN  Match(IF LStrip(run) = <<>> THEN <<" ">> ELSE LStrip(run))
             ELSE RepFrom(h, i + 1)

RepMatch(h) == RepFrom(h, 1)

\* The digits onclick=["']viewEvent\((\d+)\)["'] captures inside a token
OnclickDigits(tok) ==
    CASE tok = "<a onclick=\"viewEvent(39161)\">" -> "39161"
      [] tok = "<a onclick='viewEvent(2)'>"       -> "2"
      [] OTHER                                     -> ""

\* The digits viewEvent\((\d+)\) captures inside a token
ViewEventDigits(tok) ==
    CASE tok = "viewEvent(999)" -> "999"
      [] OTHER                  -> OnclickDigits(tok)

\* Group 1 of href=["']([^"']*evr[^"']*evid=(\d+)[^"']*)["'] inside a token
HrefTarget(tok) ==
    CASE tok = "<a href=\"/members/evr/x.php?evid=5\">" -> "/members/evr/x.php?evid=5"
      [] tok = "<a href=\"evr/x.php?evid=6\">"          -> "evr/x.php?evid=6"
      [] tok = "<a href=\"http://h/evr/x.php?evid=8\">" -> "http://h/evr/x.php?evid=8"
      [] OTHER                                           -> ""

\* event_url.startswith('http')
StartsWithHttp(target) == target = "http://h/evr/x.php?evid=8"

\* event_url.startswith('/')
StartsWithSlash(target) == target = "/members/evr/x.php?evid=5"

\* The leftmost token for which f gives a capture, as a match
RECURSIVE FirstOnclick(_, _)
FirstOnclick(h, i) ==
    IF i > Len(h) THEN NoMatch
    ELSE IF OnclickDigits(h[i]) # "" THEN Match(<<OnclickDigits(h[i])>>)
    ELSE FirstOnclick(h, i + 1)

RECURSIVE FirstViewEvent(_, _)
FirstViewEvent(h, i) ==
    IF i > Len(h) THEN NoMatch
    ELSE IF ViewEventDigits(h[i]) # "" THEN Match(<<ViewEventDigits(h[i])>>)
    ELSE FirstViewEvent(h, i + 1)

RECURSIVE FirstHref(_, _)
FirstHref(h, i) ==
    IF i > Len(h) THEN NoMatch
    ELSE IF HrefTarget(h[i]) # "" THEN Match(<<HrefTarget(h[i])>>)
    ELSE FirstHref(h, i + 1)

----------------------------------------------------------------------------
(* parse_events *)

\* The record list of parse_events before it is assigned
NotSelected == [t |-> "unset"]

EmptyStr == JStr(<<>>)

EventUrlPrefix == "https://mms.kcbs.us/members/evr/reg_event_kcba.php?orgcode=KCBA&evid="

\* event.get('id') or props.get('id') or props.get('evid') or props.get('event_id')
EventId(event, props) ==
    PyOr(Get(event, "id", JNull),
         PyOr(Get(props, "id", JNull),
              PyOr(Get(props, "evid", JNull), Get(props, "event_id", JNull))))

\* event_id_match: the quoted onclick patterns, then the bare viewEvent(...)
EventIdMatch(h) ==
    IF FirstOnclick(h, 1).m THEN FirstOnclick(h, 1) ELSE FirstViewEvent(h, 1)

\* The href of the hyperlink, made absolute
HrefUrl(target) ==
    IF StartsWithHttp(target) THEN target
    ELSE IF StartsWithSlash(target) THEN "https://mms.kcbs.us" \o target
    ELSE "https://mms.kcbs.us/" \o target

\* event_url
EventUrl(event_id, h) ==
    IF Truthy(event_id) THEN EventUrlPrefix \o PyStr(event_id)
    ELSE IF EventIdMatch(h).m THEN EventUrlPrefix \o EventIdMatch(h).g[1]
    ELSE IF FirstHref(h, 1).m THEN HrefUrl(FirstHref(h, 1).g[1])
    ELSE ""

\* Faulty variant of EventName: falls back to the name field when the capture is blank
EventNameOrField(name, h) ==
    IF NameMatch(h).m /\ Strip(NameMatch(h).g) # <<>>
    THEN JStr(Strip(NameMatch(h).g)) ELSE name

\* Faulty variant of EventName: the name field first, the <b> capture without one
EventNameFieldFirst(name, h) ==
    IF Truthy(name) THEN name
    ELSE IF NameMatch(h).m THEN JStr(Strip(NameMatch(h).g)) ELSE name

\* event_name: the stripped <b> capture when the pattern matches, else the
\* value of the name field
EventName(name, h) ==
    IF NameMatch(h).m THEN JStr(Strip(NameMatch(h).g)) ELSE name

\* match.group(1).strip() if match else ''
Stripped(match) == IF match.m THEN Flat(Strip(match.g)) ELSE ""

\* f"{event_name}|{distance}|{dates}|{location}|{rep_name}|{event_url}"
FormatLine(event_name, event_id, h) ==
    PyStr(event_name) \o "|"
    \o (IF DistanceMatch(h).m THEN DistanceMatch(h).g[1] \o " mi" ELSE "") \o "|"
    \o Stripped(DateMatch(h)) \o "|"
    \o Stripped(LocationMatch(h)) \o "|"
    \o Stripped(RepMatch(h)) \o "|"
    \o EventUrl(event_id, h)

Skipped == [exc |-> FALSE, line |-> <<>>]

Raised == [exc |-> TRUE, line |-> <<>>]

\* The body of the loop for one record: the lines it appends (none or one),
\* and whether an exception ended it.  props.get raises on a properties value
\* that is no mapping, re.search on an html_content that is no string.
ProcessEvent(event) ==
    IF ~(IsDict(event) /\ HasKey(event, "properties")) THEN Skipped
    ELSE LET props == Lookup(event, "properties")
         IN  IF ~IsDict(props) THEN Raised
             ELSE LET name == Get(props, "name", EmptyStr)
                      html_content == Get(props, "html_content", EmptyStr)
                      event_id == EventId(event, props)
                  IN  IF ~IsStr(html_content) THEN Raised
                      ELSE LET event_name == EventName(name, html_content.s)
                           IN  IF Truthy(event_name)
                               THEN [exc |-> FALSE,
                                     line |-> <<FormatLine(event_name, event_id,
                                                           html_content.s)>>]
                               ELSE Skipped

\* Faulty variant of OnEventError: the exception ends the batch
OnEventErrorBreak(rest) == <<>>

\* except Exception: ... continue -- the records still to be processed after
\* one raised
OnEventError(rest) == rest

\* for event in events: try ... except ... continue
RECURSIVE ParseLoop(_)
ParseLoop(evs) ==
    IF evs = <<>> THEN <<>>
    ELSE LET r == ProcessEvent(Head(evs))
         IN  IF r.exc THEN ParseLoop(OnEventError(Tail(evs)))
             ELSE r.line \o ParseLoop(Tail(evs))

\* The value of the first key, in iteration order, whose value is a list
RECURSIVE FirstListValue(_)
FirstListValue(pairs) ==
    IF pairs = <<>> THEN JList(<<>>)
    ELSE IF IsList(Head(pairs)[2]) THEN Head(pairs)[2]
    ELSE FirstListValue(Tail(pairs))

\* Faulty variant of SelectEvents: `events` is looked up before `features`
SelectEventsFirst(data) ==
    IF IsDict(data)
    THEN IF HasKey(data, "events") THEN Lookup(data, "events")
         ELSE IF HasKey(data, "features") THEN Lookup(data, "features")
         ELSE IF HasKey(data, "data") THEN Lookup(data, "data")
         ELSE FirstListValue(data.d)
    ELSE IF IsList(data) THEN data
    ELSE JList(<<>>)

\* events, as the isinstance chain of parse_events assigns it
SelectEvents(data) ==
    IF IsDict(data)
    THEN IF HasKey(data, "features") THEN Lookup(data, "features")
         ELSE IF HasKey(data, "events") THEN Lookup(data, "events")
         ELSE IF HasKey(data, "data") THEN Lookup(data, "data")
         ELSE FirstListValue(data.d)
    ELSE IF IsList(data) THEN data
    ELSE JList(<<>>)

\* len(events) raises TypeError
HasNoLen(v) == v.t \in {"null", "num", "bool"}

\* The values `for event in events` yields: the elements of a list, the keys
\* of a mapping, the characters of a string (one string per token here)
Iterate(v) ==
    CASE v.t = "list" -> v.l
      [] v.t = "dict" -> [i \in 1..Len(v.d) |-> JStr(<<v.d[i][1]>>)]
      [] v.t = "str"  -> [i \in 1..Len(v.s) |-> JStr(<<v.s[i]>>)]

\* parse_events(events_data): the record list it selected, the lines it
\* returns, and whether it raised (at len(events), outside the try)
ParseEvents(data) ==
    IF ~Truthy(data) THEN [crash |-> FALSE, events |-> NotSelected, lines |-> <<>>]
    ELSE LET evs == SelectEvents(data)
         IN  IF HasNoLen(evs) THEN [crash |-> TRUE, events |-> evs, lines |-> <<>>]
             ELSE [crash |-> FALSE, events |-> evs, lines |-> ParseLoop(Iterate(evs))]

----------------------------------------------------------------------------
(* The module-level configuration check and main *)

NoResponse == [kind |-> "none"]

NoFile == [exists |-> FALSE, content |-> ""]

\* Faulty variant of ConfigMissing: `ZIPCODE is None`
ConfigUnset(zip) == zip = JNull

\* `not ZIPCODE`
ConfigMissing(zip) == ~Truthy(zip)

\* Faulty variant of FileAfterWrite: the file is opened for appending
FileAfterAppend(old, lines) ==
    [exists |-> TRUE, content |-> old.content \o JoinLines(lines)]

\* open(OUTPUT_FILE, 'w') and f.write(...): the file after main wrote it
FileAfterWrite(old, lines) == [exists |-> TRUE, content |-> JoinLines(lines)]

\* Faulty variant of MainReturn: return 0
MainReturnZero(lines) == 0

\* return 0 if output_lines else 1
MainReturn(lines) == IF lines # <<>> THEN 0 ELSE 1

\* Exit status of an interpreter that ends on an uncaught exception
UncaughtExit == <<1>>

----------------------------------------------------------------------------
(* Inputs of the runs *)

Str(tok) == JStr(<<tok>>)

Props(pairs) == JDict(<<<<"properties", JDict(pairs)>>>>)

\* A record with a name field only
Named(n) == Props(<<<<"name", Str(n)>>>>)

SmokeoutHtml ==
    <<"<b>", "Smokeout", "</b>", " ", "<i>", "6/1/2026 - 6/2/2026", "</i>", " ",
      "DIST: 10 mi", " ", "</a>", "Austin, TX 78701", "<br />", "UNITED STATES",
      " ", "Reps:", " ", "JANE DOE">>

\* The record of the end-to-end scenario
SmokeoutEvent ==
    JDict(<<<<"id", JNum(7)>>,
            <<"properties", JDict(<<<<"name", Str("Smokeout")>>,
                                    <<"html_content", JStr(SmokeoutHtml)>>>>)>>>>)

Features(recs) == JDict(<<<<"features", JList(recs)>>>>)

\* Environment values of ZIPCODE: unset, empty, set
ZipValues == {JNull, EmptyStr, Str("23228")}

\* Payloads the endpoint may serialize
RunDocs ==
    {Features(<<SmokeoutEvent>>),
     Features(<<Named("Other"), Props(<<>>), Named("BBQ Bash")>>),
     Features(<<>>),
     JDict(<<<<"features", JNull>>>>),
     JDict(<<<<"features", JNum(5)>>>>),
     JDict(<<<<"events", Str("Other")>>>>),
     JDict(<<>>),
     JList(<<Named("Other")>>),
     JList(<<JNum(5), Named("Other"), Named("BBQ Bash")>>),
     JNum(5),
     JNull}

\* Response bodies: one document, nothing, text that is not JSON, a document
\* after other text, two documents
RunBodies ==
    {<<d>> : d \in RunDocs}
    \cup {<<>>, <<Junk>>}
    \cup {<<Junk, d>> : d \in {Features(<<SmokeoutEvent>>), JList(<<Named("Other")>>)}}
    \cup {<<Features(<<SmokeoutEvent>>), Features(<<>>)>>}

Responses ==
    {TransportError} \cup {Text(cb, b) : cb \in BOOLEAN, b \in RunBodies}

----------------------------------------------------------------------------
(* Actions *)

Init ==
    /\ pc = "idle"
    /\ ZIPCODE = JNull
    /\ response = NoResponse
    /\ events_data = JNull
    /\ events = NotSelected
    /\ output_lines = <<>>
    /\ FinalCSV = NoFile
    /\ exit_code = <<>>
    /\ requests = 0
    /\ writes = 0
    /\ runs = 0

\* A new interpreter starts on the script; only the file survives the last one
StartProcess(zip) ==
    /\ pc \in {"idle", "config_exit", "crashed", "done"}
    /\ runs < MaxRuns
    /\ pc' = "import"
    /\ ZIPCODE' = zip
    /\ response' = NoResponse
    /\ events_data' = JNull
    /\ events' = NotSelected
    /\ output_lines' = <<>>
    /\ exit_code' = <<>>
    /\ requests' = 0
    /\ writes' = 0
    /\ runs' = runs + 1
    /\ UNCHANGED FinalCSV

\* if not ZIPCODE: print(...); sys.exit(1)
ConfigCheck ==
    /\ pc = "import"
    /\ IF ConfigMissing(ZIPCODE)
       THEN pc' = "config_exit" /\ exit_code' = <<1>>
       ELSE pc' = "main" /\ UNCHANGED exit_code
    /\ UNCHANGED <<ZIPCODE, response, events_data, events, output_lines,
                   FinalCSV, requests, writes, runs>>

\* events_data = search_events_by_radius(ZIPCODE, RADIUS)
Fetch(resp) ==
    /\ pc = "main"
    /\ pc' = "fetched"
    /\ requests' = requests + 1
    /\ response' = resp
    /\ events_data' = SearchEvents(resp)
    /\ UNCHANGED <<ZIPCODE, events, output_lines, FinalCSV, exit_code, writes,
                   runs>>

\* output_lines = parse_events(events_data)
Parse ==
    /\ pc = "fetched"
    /\ LET r == ParseEvents(events_data)
       IN  /\ events' = r.events
           /\ IF r.crash
              THEN pc' = "crashed" /\ exit_code' = UncaughtExit
                   /\ UNCHANGED output_lines
              ELSE pc' = "parsed" /\ output_lines' = r.lines
                   /\ UNCHANGED exit_code
    /\ UNCHANGED <<ZIPCODE, response, events_data, FinalCSV, requests, writes,
                   runs>>

\* the write of OUTPUT_FILE, and sys.exit(main())
Write ==
    /\ pc = "parsed"
    /\ pc' = "done"
    /\ FinalCSV' = FileAfterWrite(FinalCSV, output_lines)
    /\ writes' = writes + 1
    /\ exit_code' = <<MainReturn(output_lines)>>
    /\ UNCHANGED <<ZIPCODE, response, events_data, events, output_lines,
                   requests, runs>>

Next ==
    \/ \E zip \in ZipValues : StartProcess(zip)
    \/ ConfigCheck
    \/ \E resp \in Responses : Fetch(resp)
    \/ Parse
    \/ Write

Spec == Init /\ [][Next]_vars

----------------------------------------------------------------------------
(* parse_events as a function of its argument: the inputs *)

\* All sequences of length at most n over the elements of S
RECURSIVE SeqsUpTo(_, _)
SeqsUpTo(S, n) ==
    IF n = 0 THEN {<<>>}
    ELSE LET shorter == SeqsUpTo(S, n - 1)
         IN  shorter \cup {Append(q, x) : q \in {r \in shorter : Len(r) = n - 1}, x \in S}

\* html_content values that exercise the name pattern
NameHtmls ==
    SeqsUpTo({"<b>", "</b>", "BBQ Bash", " ", "<i>"}, MaxHtmlLen)
    \cup {<<"<b>", " ", "BBQ Bash", " ", "</b>">>,
          <<"<b>", "<i>", "BBQ Bash", "</i>", "</b>", "<b>", "Smokeout", "</b>">>,
          <<"<b>", "</b>", "<b>", "Smokeout", "</b>">>,
          SmokeoutHtml}

\* name fields: absent (NoField), null, strings, numbers
NoField == [t |-> "absent"]

NameValues == {NoField, JNull, EmptyStr, Str("Other"), Str(" "), JNum(0), JNum(5)}

\* The pairs of a mapping, without the fields that are absent
RECURSIVE Present(_)
Present(pairs) ==
    IF pairs = <<>> THEN <<>>
    ELSE IF Head(pairs)[2] = NoField THEN Present(Tail(pairs))
    ELSE <<Head(pairs)>> \o Present(Tail(pairs))

NameRecords ==
    {Props(Present(<<<<"name", n>>, <<"html_content", JStr(h)>>>>)) :
        n \in NameValues, h \in NameHtmls}

\* identifier fields: absent, null, empty, zero, a number, a string of digits
IdValues == {NoField, JNull, EmptyStr, JNum(0), JNum(7), Str("39161")}

\* html_content values that exercise the identifier and hyperlink patterns
UrlHtmls ==
    {<<>>, <<"viewEvent(999)">>, <<"<a onclick=\"viewEvent(39161)\">">>,
     <<"viewEvent(999)", " ", "<a onclick='viewEvent(2)'>">>,
     <<"<a href=\"/members/evr/x.php?evid=5\">">>,
     <<"<a href=\"evr/x.php?evid=6\">">>,
     <<"<a href=\"http://h/evr/x.php?evid=8\">">>,
     <<"<a href=\"evr/x.php?evid=6\">", "viewEvent(999)">>}

UrlRecords ==
    {JDict(Present(<<<<"id", a>>,
                     <<"properties",
                       JDict(Present(<<<<"name", Str("Other")>>, <<"id", b>>,
                                       <<"evid", c>>, <<"event_id", d>>,
                                       <<"html_content", JStr(h)>>>>))>>>>)) :
        a \in IdValues, b \in IdValues, c \in IdValues, d \in IdValues,
        h \in UrlHtmls}

\* Records of a batch: well-formed ones, ones without a name, ones that
\* raise (properties or html_content of another type), and other elements
BatchRecords ==
    {Named("Other"), SmokeoutEvent, Props(<<>>),
     JDict(<<<<"properties", JList(<<>>)>>>>),
     JDict(<<<<"properties", JNull>>>>),
     Props(<<<<"name", Str("BBQ Bash")>>, <<"html_content", JNum(5)>>>>),
     Props(<<<<"name", Str("BBQ Bash")>>, <<"html_content", JStr(<<"<b>", " ", "</b>">>)>>>>),
     JNum(5), JDict(<<<<"name", Str("Other")>>>>)}

Batches == SeqsUpTo(BatchRecords, MaxEvents)

\* Keys of a root mapping, each with the value it carries in the inputs
RootKeys == {"features", "events", "data", "count", "items", "more"}

RootValue(k) == IF k = "count" THEN JNum(3) ELSE JList(<<Named(k)>>)

RECURSIVE KeySeqs(_)
\* The sequences of distinct keys of length at most n
KeySeqs(n) ==
    IF n = 0 THEN {<<>>}
    ELSE LET shorter == KeySeqs(n - 1)
         IN  shorter \cup
             {Append(q, k) : q \in {r \in shorter : Len(r) = n - 1},
                             k \in RootKeys}

Distinct(q) == \A i, j \in 1..Len(q) : i # j => q[i] # q[j]

RootDicts ==
    {JDict([i \in 1..Len(q) |-> <<q[i], RootValue(q[i])>>]) :
        q \in {r \in KeySeqs(MaxKeys) : Distinct(r)}}

\* Values a `features` (or `events`, `data`) key may carry besides a list
OddValues == {JNull, JNum(5), JNum(0), JBool(TRUE), Str("Other"), EmptyStr,
              JDict(<<<<"a", JNum(1)>>>>), JList(<<>>)}

OddRoots ==
    {JDict(<<<<k, v>>>>) : k \in {"features", "events", "data", "items"}, v \in OddValues}
    \cup {JDict(<<<<"features", v>>, <<"events", JList(<<Named("events")>>)>>>>) :
             v \in OddValues}
    \cup {JDict(<<<<"events", JList(<<Named("events")>>)>>, <<"features", v>>>>) :
             v \in OddValues}
    \cup {JNull, JNum(5), JNum(0), JBool(TRUE), JBool(FALSE), Str("Other"), EmptyStr}

ParseInputs ==
    {Features(<<r>>) : r \in NameRecords \cup UrlRecords}
    \cup {Features(b) : b \in Batches}
    \cup {JList(b) : b \in Batches}
    \cup RootDicts
    \cup OddRoots

\* parse_events about to be applied to any of the inputs
ParseInit ==
    /\ pc = "fetched"
    /\ ZIPCODE = Str("23228")
    /\ response = NoResponse
    /\ events_data \in ParseInputs
    /\ events = NotSelected
    /\ output_lines = <<>>
    /\ FinalCSV = NoFile
    /\ exit_code = <<>>
    /\ requests = 1
    /\ writes = 0
    /\ runs = 1

ParseNext == Parse

ParseSpec == ParseInit /\ [][ParseNext]_vars

----------------------------------------------------------------------------
(* Properties of the runs (specification Spec) *)

Finished == pc \in {"config_exit", "crashed", "done"}

\* C1: when ZIPCODE is set and main() returns, the exit code is 0 if and only
\* if parse_events produced at least one line, and 1 in every other case; a
\* decoded payload without qualifying events ({"features": []}) gives 1.
C1_ExitCode ==
    pc = "done" =>
        /\ Truthy(ZIPCODE)
        /\ exit_code \in {<<0>>, <<1>>}
        /\ (exit_code = <<0>>) <=> (Len(output_lines) >= 1)
        /\ events_data = Features(<<>>) => exit_code = <<1>>

\* C1 witness: main returned 1 after a payload that was fetched and decoded
\* and holds no event
C1_Witness ==
    /\ pc = "done"
    /\ response = Text(FALSE, <<Features(<<>>)>>)
    /\ events_data = Features(<<>>)
    /\ exit_code = <<1>>

\* C2 as stated: after any run the file exists and holds exactly the lines of
\* that run, joined by newlines (empty when the run produced none).
C2_Original ==
    Finished => FinalCSV = [exists |-> TRUE, content |-> JoinLines(output_lines)]

\* C2 as amended: the file changes only when a run reaches the write of
\* main(), and then it holds exactly that run's lines joined by newlines
\* (empty when there are none); a run that stops at the ZIPCODE check or ends
\* on an uncaught exception leaves the file as it was.
C2_Amended ==
    [][IF pc = "parsed" /\ pc' = "done"
       THEN FinalCSV' = [exists |-> TRUE, content |-> JoinLines(output_lines')]
       ELSE FinalCSV' = FinalCSV]_vars

\* C2 witness: a second run that produced no line has left an empty file
C2_Witness ==
    /\ pc = "done"
    /\ runs = 2
    /\ output_lines = <<>>
    /\ FinalCSV = [exists |-> TRUE, content |-> ""]

\* C3: once the ZIPCODE check has passed, no response makes the process end
\* abnormally (on an uncaught exception).
C3_NoAbnormalEnd == pc # "crashed"

\* The response text decodes: a plain text is one document, a callback text
\* holds exactly one outermost object
Decodable(resp) ==
    /\ resp.kind = "text"
    /\ IF resp.callback THEN Len(OuterDictsOfSeq(resp.body)) = 1
       ELSE Len(resp.body) = 1 /\ resp.body[1] # Junk

\* C4: after a transport failure or a response text that is not valid JSON
\* (after the callback unwrapping), search_events_by_radius has returned
\* None, the run does not end abnormally, it produces no line, writes an
\* empty file and exits with code 1.
C4_NoData ==
    (response # NoResponse /\ ~Decodable(response)) =>
        /\ events_data = JNull
        /\ pc # "crashed"
        /\ output_lines = <<>>
        /\ pc = "done" => FinalCSV = [exists |-> TRUE, content |-> ""]
        /\ pc = "done" => exit_code = <<1>>

\* C4 witness: a run is over whose response was a document after text that
\* is not JSON
C4_Witness ==
    /\ pc = "done"
    /\ response = Text(FALSE, <<Junk, Features(<<SmokeoutEvent>>)>>)
    /\ exit_code = <<1>>

\* C5: with ZIPCODE absent or empty the process exits with code 1 before any
\* GET request, any parse_events and any write of the file; in every run the
\* configuration check precedes the single GET request.
C5_FailFast ==
    /\ (pc # "idle" /\ ZIPCODE \in {JNull, EmptyStr}) =>
          /\ pc \in {"import", "config_exit"}
          /\ requests = 0
          /\ writes = 0
          /\ events = NotSelected
          /\ pc = "config_exit" => exit_code = <<1>>
    /\ requests <= 1
    /\ requests = 1 => pc \in {"fetched", "parsed", "crashed", "done"}
    /\ pc \in {"idle", "import", "config_exit"} => requests = 0

\* C5 witness: a second process has exited at the configuration check, on an
\* empty ZIPCODE
C5_Witness ==
    /\ pc = "config_exit"
    /\ ZIPCODE = EmptyStr
    /\ runs = 2
    /\ exit_code = <<1>>

----------------------------------------------------------------------------
(* Properties of parse_events (specification ParseSpec) *)

Parsed == pc \in {"parsed", "crashed"}

\* The record list the extractor worked on: none is selected on the early
\* return, and no record is processed then
RecordList == IF events = NotSelected THEN JList(<<>>) ELSE events

\* The positions of a mapping whose value is a list
ListPositions(v) == {i \in 1..Len(v.d) : v.d[i][2].t = "list"}

\* The smallest element of a non-empty set of numbers
Least(S) == CHOOSE i \in S : \A j \in S : i <= j

\* The value under key k of the root (the key is present)
Under(k) == events_data.d[CHOOSE i \in 1..Len(events_data.d) : events_data.d[i][1] = k][2]

RootHas(k) == \E i \in 1..Len(events_data.d) : events_data.d[i][1] = k

\* C6: the record list is the value of `features` if the root mapping has
\* that key, else of `events`, else of `data`, else of the first key (in
\* iteration order) whose value is a list; a root list is used itself; any
\* other root gives an empty record list.  With both `features` and `events`
\* present, `features` is used.
C6_RecordList ==
    Parsed =>
        IF events_data.t = "dict"
        THEN /\ RootHas("features") => RecordList = Under("features")
             /\ ~RootHas("features") /\ RootHas("events") =>
                    RecordList = Under("events")
             /\ ~RootHas("features") /\ ~RootHas("events") /\ RootHas("data") =>
                    RecordList = Under("data")
             /\ ~RootHas("features") /\ ~RootHas("events") /\ ~RootHas("data") =>
                    RecordList =
                        IF ListPositions(events_data) = {} THEN JList(<<>>)
                        ELSE events_data.d[Least(ListPositions(events_data))][2]
        ELSE IF events_data.t = "list" THEN RecordList = events_data
        ELSE RecordList = JList(<<>>)

\* C6 witness: `events` comes first in the mapping and `features` second, and
\* the lines are those of the `features` record
C6_Witness ==
    /\ pc = "parsed"
    /\ events_data = JDict(<<<<"events", RootValue("events")>>,
                             <<"features", RootValue("features")>>>>)
    /\ output_lines = <<"features|||||">>

\* The input is a `features` list of one record whose `properties` is a
\* mapping and whose html_content is a string (or absent): a record that is
\* processed without exception
OneRecord ==
    /\ pc = "parsed"
    /\ events_data.t = "dict" /\ Len(events_data.d) = 1
    /\ events_data.d[1][1] = "features"
    /\ events_data.d[1][2].t = "list" /\ Len(events_data.d[1][2].l) = 1
    /\ LET rec == events_data.d[1][2].l[1]
       IN  /\ rec.t = "dict"
           /\ \E i \in 1..Len(rec.d) :
                 /\ rec.d[i][1] = "properties"
                 /\ rec.d[i][2].t = "dict"
                 /\ \A k \in 1..Len(rec.d[i][2].d) :
                       rec.d[i][2].d[k][1] = "html_content" =>
                           rec.d[i][2].d[k][2].t = "str"

TheRecord == events_data.d[1][2].l[1]

\* The value of a field of a mapping, Absent when the key is missing
Absent == [t |-> "absent"]

Field(v, k) ==
    IF \E i \in 1..Len(v.d) : v.d[i][1] = k
    THEN v.d[CHOOSE i \in 1..Len(v.d) : v.d[i][1] = k][2]
    ELSE Absent

TheProps == Field(TheRecord, "properties")

\* html_content of the record, as a token sequence ('' when absent)
TheHtml ==
    IF Field(TheProps, "html_content") = Absent THEN <<>>
    ELSE Field(TheProps, "html_content").s

\* The text of a value that is shown in a line
Shown(v) ==
    CASE v.t = "str" -> Flat(v.s)
      [] v.t = "num" -> ToString(v.n)

\* A non-empty name in the direct `name` field: a non-empty string or a
\* number other than 0
FieldNamed ==
    LET n == Field(TheProps, "name")
    IN  \/ n.t = "str" /\ n.s # <<>>
        \/ n.t = "num" /\ n.n # 0

\* <b>...</b> spans: an opening tag at i, the next closing tag at j, and
\* something in between
BSpans(h) ==
    {<<i, j>> \in (1..Len(h)) \X (1..Len(h)) :
        /\ i + 1 < j /\ h[i] = "<b>" /\ h[j] = "</b>"
        /\ \A k \in (i + 1)..(j - 1) : h[k] # "</b>"}

\* The span that opens first
FirstSpan(S) == CHOOSE p \in S : \A q \in S : p[1] <= q[1]

IsText(tok) == tok \notin TagTokens

\* The text inside a span: what is not a tag, without the blanks around it
Inside(h, p) == Strip(SelectSeq(SubSeq(h, p[1] + 1, p[2] - 1), IsText))

\* Spans that hold text and nothing else: no tag inside
TextSpans(h) ==
    {p \in BSpans(h) : \A k \in (p[1] + 1)..(p[2] - 1) : IsText(h[k])}

\* C7 as stated: a record processed without exception gives exactly one line
\* whenever the <b> span or the name field yields a non-empty name, and no
\* line only when both yield an empty one.
C7_Original ==
    OneRecord =>
        LET fromSpan == /\ BSpans(TheHtml) # {}
                        /\ Inside(TheHtml, FirstSpan(BSpans(TheHtml))) # <<>>
        IN  IF fromSpan \/ FieldNamed THEN Len(output_lines) = 1
            ELSE output_lines = <<>>

\* C7 as amended: a record processed without exception gives exactly one
\* line when its derived name is non-empty and none otherwise, the derived
\* name being the text (blanks around it removed) of the first <b> span that
\* holds text without any tag when there is such a span -- even if that text
\* is blank and the name field is not -- and the name field only when there
\* is no such span.
C7_Amended ==
    OneRecord =>
        LET spans == TextSpans(TheHtml)
            named == IF spans # {} THEN Inside(TheHtml, FirstSpan(spans)) # <<>>
                     ELSE FieldNamed
        IN  IF named THEN Len(output_lines) = 1 ELSE output_lines = <<>>

\* C7 witness: the span holds a blank only and the name field is "Other":
\* the record is dropped
C7_Witness ==
    /\ OneRecord
    /\ TheHtml = <<"<b>", " ", "</b>">>
    /\ Field(TheProps, "name") = Str("Other")
    /\ output_lines = <<>>

\* The line of the record when its name is n: the other five fields as
\* the extractor formats them
LineNamed(n) ==
    n \o "|"
    \o (IF DistanceMatch(TheHtml).m THEN DistanceMatch(TheHtml).g[1] \o " mi" ELSE "")
    \o "|" \o Stripped(DateMatch(TheHtml))
    \o "|" \o Stripped(LocationMatch(TheHtml))
    \o "|" \o Stripped(RepMatch(TheHtml))
    \o "|" \o EventUrl(EventId(TheRecord, TheProps), TheHtml)

\* C8 as stated: the name of an emitted line is the text inside the first
\* <b>...</b> span whenever a span is present, whatever the name field, and
\* the name field exactly when no span is present.
C8_Original ==
    (OneRecord /\ Len(output_lines) = 1) =>
        IF BSpans(TheHtml) # {}
        THEN output_lines[1] =
                 LineNamed(Flat(Inside(TheHtml, FirstSpan(BSpans(TheHtml)))))
        ELSE output_lines[1] = LineNamed(Shown(Field(TheProps, "name")))

\* C8 as amended: the name of an emitted line is the text (blanks around it
\* removed) inside the first <b> span that holds text without any tag,
\* whenever there is such a span and whatever the name field; the name field
\* is used exactly when there is no such span (a span with a tag inside does
\* not count).
C8_Amended ==
    (OneRecord /\ Len(output_lines) = 1) =>
        IF TextSpans(TheHtml) # {}
        THEN output_lines[1] =
                 LineNamed(Flat(Inside(TheHtml, FirstSpan(TextSpans(TheHtml)))))
        ELSE output_lines[1] = LineNamed(Shown(Field(TheProps, "name")))

\* C8 witness: html_content has the span <b>BBQ Bash</b>, the name field is
\* "Other", and the line is named BBQ Bash
C8_Witness ==
    /\ OneRecord
    /\ TheHtml = <<"<b>", "BBQ Bash", "</b>">>
    /\ Field(TheProps, "name") = Str("Other")
    /\ output_lines = <<"BBQ Bash|||||">>

\* An identifier field that provides an identifier: present, not null and
\* not the empty string
Provides(v) == v # Absent /\ v.t # "null" /\ v # EmptyStr

\* The identifier fields of the record, in the order of the claim
IdFields ==
    <<Field(TheRecord, "id"), Field(TheProps, "id"), Field(TheProps, "evid"),
      Field(TheProps, "event_id")>>

\* C9: when the record provides an identifier in `id`, `properties.id`,
\* `properties.evid` or `properties.event_id`, the URL of its line is the
\* template with the first of them, whatever html_content holds; the
\* identifiers and hyperlinks of html_content are used only when none of
\* these fields provides one.
C9_FieldIdWins ==
    (OneRecord /\ Len(output_lines) = 1 /\ FieldNamed /\ TextSpans(TheHtml) = {}) =>
        LET providing == {i \in 1..4 : Provides(IdFields[i])}
            url == IF providing # {}
                   THEN "https://mms.kcbs.us/members/evr/reg_event_kcba.php?orgcode=KCBA&evid="
                        \o Shown(IdFields[Least(providing)])
                   ELSE EventUrl(JNull, TheHtml)
        IN  output_lines[1] = Shown(Field(TheProps, "name")) \o "|||||" \o url

\* The features list of the input, when the input is one
IsBatch ==
    /\ pc = "parsed"
    /\ events_data.t = "dict" /\ Len(events_data.d) = 1
    /\ events_data.d[1][1] = "features"
    /\ events_data.d[1][2].t = "list"

TheBatch == events_data.d[1][2].l

\* The lines of a record that is processed alone
Alone(rec) == ParseEvents(Features(<<rec>>)).lines

RECURSIVE AloneLines(_)
\* The lines of the records of a list, each processed alone, in order
AloneLines(recs) ==
    IF recs = <<>> THEN <<>> ELSE Alone(Head(recs)) \o AloneLines(Tail(recs))

\* C10: the lines of a batch are the lines its records give when each is
\* processed alone, in input order, at most one per record: a record that
\* raises is skipped and the later records are still processed.
C10_Isolation ==
    IsBatch =>
        /\ output_lines = AloneLines(TheBatch)
        /\ \A i \in 1..Len(TheBatch) : Len(Alone(TheBatch[i])) <= 1

\* C10 witness: the first record raises (its properties is a list), the
\* second is well formed and gives the only line
C10_Witness ==
    /\ IsBatch
    /\ TheBatch = <<JDict(<<<<"properties", JList(<<>>)>>>>), Named("Other")>>
    /\ output_lines = <<"Other|||||">>

=============================================================================
